---- MODULE Spec2Model ----
(***************************************************************************)
(* Model of automation_system.py: the daily economic report generator.     *)
(*                                                                         *)
(*   Spec          main(): start-up, the schedule loop, one run of         *)
(*                 generate_and_send_report with its failures, Ctrl+C.     *)
(*   SpecMarket    get_market_data and the market rows of                  *)
(*                 generate_html_report, as functions of the provider's    *)
(*                 answers.                                                *)
(*   SpecCalendar  get_weekly_events as a function of the start date.      *)
(*                                                                         *)
(* Time is counted in minutes (the loop polls every 60 seconds).  Prices   *)
(* are counted in halves (3 is 1.5) so that the ".0f" rounding acts.       *)
(* Strings the code inspects or builds are sequences of characters.        *)
(***************************************************************************)
EXTENDS Integers, Sequences, FiniteSets, TLC

VARIABLES
    pc,             \* position of the process in main() / the run
    configFile,     \* config.json on disk: "absent", "example", "edited"
    config,         \* self.config: "unloaded" or a record
    now,            \* wall clock, minutes since midnight of day 0
    next_run,       \* the schedule job's next_run, -1 before the job exists
    exitCause,      \* "running" or why the process ended
    cur,            \* what the run in progress has done so far
    lastOutcome,    \* how the last completed run ended
    lastFetchFailed,\* whether a symbol failed in the last completed run
    lastFire,       \* start time of the latest run, -1 if none
    prevFire,       \* start time of the run before it, -1 if none
    interruptedAt,  \* pc at which Ctrl+C arrived, "none" if it did not
    mpc,            \* SpecMarket: "input", "fetched", "rendered"
    responses,      \* SpecMarket: the provider's answer per configured pair
    market_data,    \* SpecMarket: result of get_market_data
    market_rows,    \* SpecMarket: rows built by generate_html_report
    cpc,            \* SpecCalendar: "input", "done"
    today,          \* SpecCalendar: start date, days since 2025-01-01
    weekly_events   \* SpecCalendar: result of get_weekly_events

vars == <<pc, configFile, config, now, next_run, exitCause, cur, lastOutcome,
          lastFetchFailed, lastFire, prevFire, interruptedAt,
          mpc, responses, market_data, market_rows,
          cpc, today, weekly_events>>

schedVars == <<pc, configFile, now, next_run, exitCause, cur, lastOutcome,
               lastFetchFailed, lastFire, prevFire, interruptedAt>>
marketVars == <<mpc, responses, market_data, market_rows>>
calVars == <<cpc, today, weekly_events>>

(***************************************************************************)
(* Bounds                                                                  *)
(***************************************************************************)
MaxSymbols == 2
MaxDays == 2
MaxStartDay == 400

(***************************************************************************)
(* Helpers                                                                 *)
(***************************************************************************)
Min(a, b) == IF a <= b THEN a ELSE b

Abs(x) == IF x < 0 THEN -x ELSE x

\* Round the non-negative rational num/den to the nearest integer, ties to even.
RoundHalfEven(num, den) ==
    LET q == num \div den
        r == num % den
    IN  IF 2 * r < den THEN q
        ELSE IF 2 * r > den THEN q + 1
        ELSE IF q % 2 = 0 THEN q ELSE q + 1

DigitChar == <<"0", "1", "2", "3", "4", "5", "6", "7", "8", "9">>

RECURSIVE Digits(_)
Digits(n) == IF n < 10 THEN <<DigitChar[n + 1]>>
             ELSE Digits(n \div 10) \o <<DigitChar[(n % 10) + 1]>>

\* Python's `c in s` for a one-character c.
Contains(s, c) == \E i \in 1..Len(s) : s[i] = c

(***************************************************************************)
(* Exceptions.  `except Exception` catches every exception but the ones    *)
(* that derive from BaseException only, of which Ctrl+C's                  *)
(* KeyboardInterrupt is the one that occurs here.                          *)
(***************************************************************************)
KeyboardInterrupt == "KeyboardInterrupt"

ProviderErrors == {"ConnectionError"}
TemplateErrors == {"FileNotFoundError", "PermissionError"}
TransportErrors == {"SMTPAuthenticationError", "SMTPServerDisconnected"}

IsException(e) == e # KeyboardInterrupt

(***************************************************************************)
(* Configuration: the record load_config returns.  The example file and    *)
(* the built-in default carry the placeholder credentials.                 *)
(***************************************************************************)
DefaultIndices == <<"^FTMIB", "^STOXX50E", "^GDAXI", "^DJI">>
DefaultNames == <<"FTSE MIB", "Euro Stoxx 50", "DAX", "Dow Jones">>

\* Before load_config has returned.
Unloaded ==
    [credentials |-> "none", source |-> "none", indices |-> <<>>, names |-> <<>>]

\* The dictionary load_config returns when the file is not found.
DefaultConfig ==
    [credentials |-> "placeholder", source |-> "default",
     indices |-> DefaultIndices, names |-> DefaultNames]

\* What create_config_file writes, read back.
ExampleConfig ==
    [credentials |-> "placeholder", source |-> "file",
     indices |-> DefaultIndices, names |-> DefaultNames]

\* A config.json the operator has edited: own credentials, the default markets.
EditedConfig ==
    [credentials |-> "real", source |-> "file",
     indices |-> DefaultIndices, names |-> DefaultNames]

(***************************************************************************)
(* get_market_data                                                         *)
(***************************************************************************)
Period == 2

NaN == [nan |-> TRUE, v |-> 0]
Num(x) == [nan |-> FALSE, v |-> x]

Opens == {Num(5)}
Closes == {Num(0), Num(2), Num(3), NaN}
Rows == [Open : Opens, Close : Closes]

Hists == UNION {[1..k -> Rows] : k \in 0..Period}

Throws(e) == [exc |-> e, hist |-> <<>>]
Returns(h) == [exc |-> "none", hist |-> h]
Responses == {Throws(e) : e \in ProviderErrors} \cup {Returns(h) : h \in Hists}

NA == <<"N", "/", "A">>

\* f"{x:.0f}" of a price.
Format0(p) == IF p.nan THEN <<"n", "a", "n">> ELSE Digits(RoundHalfEven(p.v, 2))

\* ((current - previous) / previous) * 100 on numpy floats: a NaN operand or 0/0
\* gives NaN, x/0 with x > 0 gives +inf, and neither raises.
PercentChange(current, previous) ==
    IF current.nan \/ previous.nan THEN [kind |-> "nan", num |-> 0, den |-> 1]
    ELSE IF previous.v = 0
         THEN IF current.v = 0 THEN [kind |-> "nan", num |-> 0, den |-> 1]
                               ELSE [kind |-> "inf", num |-> 1, den |-> 1]
    ELSE [kind |-> "num", num |-> (current.v - previous.v) * 100, den |-> previous.v]

\* f"{change:+.2f}%": always a sign character, "+" for zero, NaN and +inf.
FormatChange(change) ==
    IF change.kind = "nan" THEN <<"+", "n", "a", "n", "%">>
    ELSE IF change.kind = "inf" THEN <<"+", "i", "n", "f", "%">>
    ELSE LET h == RoundHalfEven(Abs(change.num) * 100, change.den)
         IN  <<IF change.num < 0 THEN "-" ELSE "+">>
             \o Digits(h \div 100)
             \o <<".", DigitChar[((h % 100) \div 10) + 1], DigitChar[(h % 10) + 1], "%">>

\* "up" if change > 0 else "down" if change < 0 else "flat"; NaN compares false.
Trend(change) ==
    IF change.kind = "inf" \/ (change.kind = "num" /\ change.num > 0) THEN "up"
    ELSE IF change.kind = "num" /\ change.num < 0 THEN "down"
    ELSE "flat"

Fallback(name) ==
    [name |-> name, open |-> NA, close |-> NA, change |-> NA, trend |-> "flat"]

Quote(name, hist) ==
    LET current == hist[Len(hist)].Close
        previous == hist[Len(hist) - 1].Close
        change == PercentChange(current, previous)
    IN  [name |-> name,
         open |-> Format0(hist[Len(hist)].Open),
         close |-> Format0(current),
         change |-> FormatChange(change),
         trend |-> Trend(change)]

\* zip(indices, names) stops at the shorter list.
NumPairs(cfg) == Min(Len(cfg.indices), Len(cfg.names))

\* The body of the for loop for one pair: what it appends to market_data.  The
\* provider's errors are Exceptions, which the handler of line 74 catches.
SymbolStep(name, resp) ==
    IF resp.exc # "none" THEN <<Fallback(name)>>
    ELSE IF Len(resp.hist) >= 2 THEN <<Quote(name, resp.hist)>>
    ELSE <<>>

RECURSIVE MarketLoopOuterTry(_, _, _, _)
MarketLoopOuterTry(cfg, resps, i, acc) ==
    IF i > NumPairs(cfg) THEN acc
    ELSE IF resps[i].exc # "none" THEN acc \o <<Fallback(cfg.names[i])>>
    ELSE MarketLoopOuterTry(cfg, resps, i + 1, acc \o SymbolStep(cfg.names[i], resps[i]))

RECURSIVE MarketLoop(_, _, _, _)
MarketLoop(cfg, resps, i, acc) ==
    IF i > NumPairs(cfg) THEN acc
    ELSE MarketLoop(cfg, resps, i + 1, acc \o SymbolStep(cfg.names[i], resps[i]))

\* The same loop with the try around the whole loop: the first failure ends it.
get_market_data_outer_try(cfg, resps) == MarketLoopOuterTry(cfg, resps, 1, <<>>)

get_market_data(cfg, resps) == MarketLoop(cfg, resps, 1, <<>>)

(***************************************************************************)
(* generate_html_report: the market rows                                   *)
(***************************************************************************)
ColorClass(change) ==
    IF Contains(change, "+") THEN "positive"
    ELSE IF Contains(change, "-") THEN "negative"
    ELSE "neutral"

MarketRows(md) ==
    [k \in 1..Len(md) |->
        [name |-> md[k].name, open |-> md[k].open, close |-> md[k].close,
         color_class |-> ColorClass(md[k].change), change |-> md[k].change,
         trend |-> md[k].trend]]

(***************************************************************************)
(* get_weekly_events.  A date is a number of days since 2025-01-01, a      *)
(* Wednesday; 2025, 2026 and 2027 have 365 days.                           *)
(***************************************************************************)
DayNames == <<"Monday", "Tuesday", "Wednesday", "Thursday", "Friday", "Saturday", "Sunday">>

MonthLengths == <<31, 28, 31, 30, 31, 30, 31, 31, 30, 31, 30, 31>>

\* date.strftime("%A")
DayName(date) == DayNames[((date + 2) % 7) + 1]

RECURSIVE MonthAndDay(_, _)
MonthAndDay(month, dayOfYear) ==
    IF dayOfYear < MonthLengths[month] THEN <<month, dayOfYear + 1>>
    ELSE MonthAndDay(month + 1, dayOfYear - MonthLengths[month])

TwoDigits(k) == <<DigitChar[(k \div 10) + 1], DigitChar[(k % 10) + 1]>>

\* date.strftime("%d/%m")
DayDate(date) ==
    LET md == MonthAndDay(1, date % 365)
    IN  TwoDigits(md[2]) \o <<"/">> \o TwoDigits(md[1])

\* The same branches with one more, for Monday.
DayEventsWithMonday(day_name, day_date) ==
    IF day_name = "Monday" THEN
        <<[day |-> [name |-> "Lunedi", date |-> day_date],
           events |-> <<"Nessun evento">>]>>
    ELSE IF day_name = "Tuesday" THEN
        <<[day |-> [name |-> "Martedi", date |-> day_date],
           events |-> <<"Prezzi consumo YoY: Atteso 2.1% - Ore 11:00",
                        "Verbali FOMC: Politica monetaria USA - Ore 20:00">>]>>
    ELSE IF day_name = "Wednesday" THEN
        <<[day |-> [name |-> "Mercoledi", date |-> day_date],
           events |-> <<"Produzione industriale: Atteso +1.0% - Ore 10:00",
                        "Asta BOT 12 mesi: 7.5 miliardi EUR - Ore 11:00">>]>>
    ELSE IF day_name = "Thursday" THEN
        <<[day |-> [name |-> "Giovedi", date |-> day_date],
           events |-> <<"Inflazione UK: Atteso +0.7% - Ore 08:00",
                        "Produzione industriale Eurozona - Ore 11:00">>]>>
    ELSE IF day_name = "Friday" THEN
        <<[day |-> [name |-> "Venerdi", date |-> day_date],
           events |-> <<"Vendite al dettaglio USA: Atteso +0.3% - Ore 14:30",
                        "Sentiment consumatori Michigan - Ore 16:00">>]>>
    ELSE <<>>

\* The if/elif chain of the loop body: what one day appends to events.  The
\* label f"<icon> <giorno> {day_date}" is kept as the pair (giorno, day_date).
DayEvents(day_name, day_date) ==
    IF day_name = "Tuesday" THEN
        <<[day |-> [name |-> "Martedi", date |-> day_date],
           events |-> <<"Prezzi consumo YoY: Atteso 2.1% - Ore 11:00",
                        "Verbali FOMC: Politica monetaria USA - Ore 20:00">>]>>
    ELSE IF day_name = "Wednesday" THEN
        <<[day |-> [name |-> "Mercoledi", date |-> day_date],
           events |-> <<"Produzione industriale: Atteso +1.0% - Ore 10:00",
                        "Asta BOT 12 mesi: 7.5 miliardi EUR - Ore 11:00">>]>>
    ELSE IF day_name = "Thursday" THEN
        <<[day |-> [name |-> "Giovedi", date |-> day_date],
           events |-> <<"Inflazione UK: Atteso +0.7% - Ore 08:00",
                        "Produzione industriale Eurozona - Ore 11:00">>]>>
    ELSE IF day_name = "Friday" THEN
        <<[day |-> [name |-> "Venerdi", date |-> day_date],
           events |-> <<"Vendite al dettaglio USA: Atteso +0.3% - Ore 14:30",
                        "Sentiment consumatori Michigan - Ore 16:00">>]>>
    ELSE <<>>

RECURSIVE WeeklyLoop(_, _, _)
WeeklyLoop(start, i, events) ==
    IF i >= 7 THEN events
    ELSE WeeklyLoop(start, i + 1,
                    events \o DayEvents(DayName(start + i), DayDate(start + i)))

\* events[:4]
get_weekly_events(start) ==
    LET events == WeeklyLoop(start, 0, <<>>)
    IN  SubSeq(events, 1, Min(4, Len(events)))

(***************************************************************************)
(* The schedule job: schedule.every().day.at("06:00").do(...)              *)
(***************************************************************************)
DayLen == 24 * 60
TriggerMinute == 6 * 60
PollInterval == 1

MaxTime == MaxDays * DayLen
MaxRunMinutes == DayLen + 1

\* The job is kept by the schedule library, which main drives through
\* every().day.at("06:00").do(...) and run_pending(): run_pending runs the job
\* when now >= next_run, and after the job function has returned the job sets
\* next_run to the 06:00 of the current day, moved on by whole days while it is
\* not after the current time.

\* 06:00 of the day t lies in.
MoveToAtTime(t) == (t \div DayLen) * DayLen + TriggerMinute

RECURSIVE AdvanceToOrPast(_, _)
AdvanceToOrPast(next, t) ==
    IF next < t THEN AdvanceToOrPast(next + DayLen, t) ELSE next

RECURSIVE AdvancePast(_, _)
AdvancePast(next, t) == IF next <= t THEN AdvancePast(next + DayLen, t) ELSE next

\* The job's next_run moved on only while it is before the current time.
ScheduleNextRunInclusive(t) == AdvanceToOrPast(MoveToAtTime(t), t)

\* The job's next_run, computed at time t: the first 06:00 after t.
ScheduleNextRun(t) == AdvancePast(MoveToAtTime(t), t)

(***************************************************************************)
(* The handlers: which exceptions each except clause catches, which        *)
(* clauses enclose each position, and where control resumes.               *)
(***************************************************************************)
StartupPcs == {"main", "init_generator", "schedule_job"}
IdlePcs == {"poll", "sleep"}
RenderPcs == {"open_template", "get_market_data"}
SendStages == <<"send_connect", "send_starttls", "send_login", "send_message", "send_quit">>
SendPcs == {SendStages[k] : k \in 1..Len(SendStages)}
RunPcs == RenderPcs \cup SendPcs \cup {"run_return"}
LoopPcs == IdlePcs \cup RunPcs

\* load_config: except FileNotFoundError
LoadConfigCatches(e) == e = "FileNotFoundError"

\* get_market_data: except Exception
FetchHandlerCatches(e) == IsException(e)

\* A handler of send_email_report for authentication errors only.
SendHandlerCatchesAuthOnly(e) == e = "SMTPAuthenticationError"

\* send_email_report: except Exception
SendHandlerCatches(e) == IsException(e)

\* A handler of generate_and_send_report for delivery errors only.
RunHandlerCatchesTransportOnly(e) == e \in TransportErrors

\* A bare except in generate_and_send_report.
RunHandlerCatchesAll(e) == TRUE

\* generate_and_send_report: except Exception
RunHandlerCatches(e) == IsException(e)

\* main: except KeyboardInterrupt
MainHandlerCatches(e) == e = KeyboardInterrupt

Catches(handler, e) ==
    CASE handler = "fetch" -> FetchHandlerCatches(e)
      [] handler = "send" -> SendHandlerCatches(e)
      [] handler = "run" -> RunHandlerCatches(e)
      [] handler = "main" -> MainHandlerCatches(e)

\* The try blocks around a position, innermost first.
HandlerChain(at) ==
    IF at \in SendPcs THEN <<"send", "run", "main">>
    ELSE IF at = "get_market_data" THEN <<"fetch", "run", "main">>
    ELSE IF at \in {"open_template", "run_return"} THEN <<"run", "main">>
    ELSE IF at \in IdlePcs THEN <<"main">>
    ELSE <<>>

RECURSIVE FirstCatching(_, _)
FirstCatching(chain, e) ==
    IF chain = <<>> THEN "unhandled"
    ELSE IF Catches(Head(chain), e) THEN Head(chain)
    ELSE FirstCatching(Tail(chain), e)

\* The handler an exception raised at a position lands in.
Landing(at, e) == FirstCatching(HandlerChain(at), e)

\* Resumption with the try of generate_and_send_report around the rendering only.
HandlerResumeSendAnyway(handler) ==
    CASE handler = "fetch" -> "get_market_data"
      [] handler = "send" -> "run_return"
      [] handler = "run" -> "send_connect"
      [] handler = "main" -> "exited"
      [] handler = "unhandled" -> "exited"

\* Where the process continues after the handler: the symbol loop goes on, both
\* send_email_report and generate_and_send_report return to the schedule job,
\* main returns, an unhandled exception ends the process.
HandlerResume(handler) ==
    CASE handler = "fetch" -> "get_market_data"
      [] handler = "send" -> "run_return"
      [] handler = "run" -> "run_return"
      [] handler = "main" -> "exited"
      [] handler = "unhandled" -> "exited"

NoRun == [fetchFailed |-> FALSE, render |-> "pending", send |-> "not_called",
          stage |-> "none", sent |-> FALSE]

\* What the run records when an exception raised at a position lands in a handler.
Record(run, at, handler) ==
    IF handler = "fetch" THEN [run EXCEPT !.fetchFailed = TRUE]
    ELSE IF handler = "send" THEN [run EXCEPT !.send = "false"]
    ELSE IF handler = "run" THEN
        IF at \in SendPcs THEN [run EXCEPT !.send = "raised"]
        ELSE IF at \in RenderPcs THEN [run EXCEPT !.render = "raised"]
        ELSE run
    ELSE run

ExitCause(handler) ==
    IF handler = "main" THEN "interrupt"
    ELSE IF handler = "unhandled" THEN "unhandled"
    ELSE "running"

\* An exception e raised at the current position.
Raise(run, e) ==
    LET handler == Landing(pc, e)
    IN  /\ pc' = HandlerResume(handler)
        /\ cur' = Record(run, pc, handler)
        /\ exitCause' = ExitCause(handler)

Outcome(run) ==
    IF run.render = "raised" THEN "render_failed"
    ELSE IF run.send = "true" THEN "sent"
    ELSE "delivery_failed"

(***************************************************************************)
(* Spec: main() and one process lifetime                                   *)
(***************************************************************************)
MarketIdle ==
    /\ mpc = "input"
    /\ responses = <<>>
    /\ market_data = <<>>
    /\ market_rows = <<>>

CalendarIdle ==
    /\ cpc = "input"
    /\ today = 0
    /\ weekly_events = <<>>

SchedulerIdle ==
    /\ pc = "main"
    /\ configFile = "edited"
    /\ now = 0
    /\ next_run = -1
    /\ exitCause = "running"
    /\ cur = NoRun
    /\ lastOutcome = "none"
    /\ lastFetchFailed = FALSE
    /\ lastFire = -1
    /\ prevFire = -1
    /\ interruptedAt = "none"

Init ==
    /\ pc = "main"
    /\ configFile \in {"absent", "example", "edited"}
    /\ config = Unloaded
    /\ now \in 0..(DayLen - 1)
    /\ next_run = -1
    /\ exitCause = "running"
    /\ cur = NoRun
    /\ lastOutcome = "none"
    /\ lastFetchFailed = FALSE
    /\ lastFire = -1
    /\ prevFire = -1
    /\ interruptedAt = "none"
    /\ MarketIdle
    /\ CalendarIdle

\* main, lines 333-336: without config.json write the example and return.
MainCheckConfig ==
    /\ pc = "main"
    /\ IF configFile = "absent"
       THEN /\ configFile' = "example"
            /\ pc' = "exited"
            /\ exitCause' = "config_missing"
       ELSE /\ pc' = "init_generator"
            /\ UNCHANGED <<configFile, exitCause>>
    /\ UNCHANGED <<config, now, next_run, cur, lastOutcome, lastFetchFailed,
                   lastFire, prevFire, interruptedAt, marketVars, calVars>>

\* The file system: config.json is removed after main has seen it.
ConfigRemoved ==
    /\ pc = "init_generator"
    /\ configFile # "absent"
    /\ configFile' = "absent"
    /\ UNCHANGED <<pc, config, now, next_run, exitCause, cur, lastOutcome,
                   lastFetchFailed, lastFire, prevFire, interruptedAt,
                   marketVars, calVars>>

\* What open(config_file) raises: nothing or a permission error for a file that
\* is there, FileNotFoundError for one that is not.
OpenConfigRaises ==
    IF configFile = "absent" THEN {"FileNotFoundError"} ELSE {"none", "PermissionError"}

\* EconomicReportGenerator.__init__ with load_config.
InitGenerator ==
    /\ pc = "init_generator"
    /\ \E e \in OpenConfigRaises :
        IF e = "none"
        THEN /\ config' = IF configFile = "edited" THEN EditedConfig ELSE ExampleConfig
             /\ pc' = "schedule_job"
             /\ UNCHANGED exitCause
        ELSE IF LoadConfigCatches(e)
        THEN /\ config' = DefaultConfig
             /\ pc' = "schedule_job"
             /\ UNCHANGED exitCause
        ELSE /\ pc' = "exited"
             /\ exitCause' = "unhandled"
             /\ UNCHANGED config
    /\ UNCHANGED <<configFile, now, next_run, cur, lastOutcome, lastFetchFailed,
                   lastFire, prevFire, interruptedAt, marketVars, calVars>>

\* main, line 342: the job is created and its first next_run computed.
ScheduleJob ==
    /\ pc = "schedule_job"
    /\ next_run' = ScheduleNextRun(now)
    /\ pc' = "poll"
    /\ UNCHANGED <<configFile, config, now, exitCause, cur, lastOutcome,
                   lastFetchFailed, lastFire, prevFire, interruptedAt,
                   marketVars, calVars>>

\* schedule.run_pending(): the job runs when its next_run has come.
RunPending ==
    /\ pc = "poll"
    /\ IF now >= next_run
       THEN /\ pc' = "open_template"
            /\ prevFire' = lastFire
            /\ lastFire' = now
       ELSE /\ pc' = "sleep"
            /\ UNCHANGED <<lastFire, prevFire>>
    /\ UNCHANGED <<configFile, config, now, next_run, exitCause, cur, lastOutcome,
                   lastFetchFailed, interruptedAt, marketVars, calVars>>

\* time.sleep(60)
Sleep ==
    /\ pc = "sleep"
    /\ now + PollInterval <= MaxTime
    /\ now' = now + PollInterval
    /\ pc' = "poll"
    /\ UNCHANGED <<configFile, config, next_run, exitCause, cur, lastOutcome,
                   lastFetchFailed, lastFire, prevFire, interruptedAt,
                   marketVars, calVars>>

\* generate_html_report, lines 208-209: the template is read, or open raises.
OpenTemplate ==
    /\ pc = "open_template"
    /\ \E e \in {"none"} \cup TemplateErrors :
        IF e = "none"
        THEN /\ pc' = "get_market_data"
             /\ UNCHANGED <<cur, exitCause>>
        ELSE Raise(cur, e)
    /\ UNCHANGED <<configFile, config, now, next_run, lastOutcome, lastFetchFailed,
                   lastFire, prevFire, interruptedAt, marketVars, calVars>>

\* The provider's answers the run is checked with: an error, an empty history,
\* two sessions.
RunResponses ==
    {Throws("ConnectionError"), Returns(<<>>),
     Returns(<<[Open |-> Num(5), Close |-> Num(2)], [Open |-> Num(5), Close |-> Num(3)]>>)}

\* generate_html_report, lines 212-259: the data is fetched, the rows are built
\* (and dropped: the template is returned without them), send_email_report is
\* entered.  The indicators, the news and the weekly events are computed from
\* literals and raise nothing; config.json is taken to hold the sections the
\* code reads.
FetchAndRender ==
    /\ pc = "get_market_data"
    /\ \E resps \in [1..NumPairs(config) -> RunResponses] :
        LET md == get_market_data(config, resps)
            rows == MarketRows(md)
        IN  /\ Len(rows) = Len(md)
            /\ cur' = [cur EXCEPT
                        !.fetchFailed = @ \/ (\E k \in 1..Len(md) : md[k].change = NA),
                        !.render = "ok",
                        !.send = "in_progress"]
    /\ pc' = "send_connect"
    /\ UNCHANGED <<configFile, config, now, next_run, exitCause, lastOutcome,
                   lastFetchFailed, lastFire, prevFire, interruptedAt,
                   marketVars, calVars>>

NextSendPc(stage) ==
    IF stage = "send_connect" THEN "send_starttls"
    ELSE IF stage = "send_starttls" THEN "send_login"
    ELSE IF stage = "send_login" THEN "send_message"
    ELSE IF stage = "send_message" THEN "send_quit"
    ELSE "run_return"

\* send_email_report, lines 274-283: SMTP(), starttls, login, send_message and
\* quit in turn, each of which may raise; after quit the function returns True.
SendStep ==
    /\ pc \in SendPcs
    /\ \E e \in {"none"} \cup TransportErrors :
        IF e = "none"
        THEN /\ pc' = NextSendPc(pc)
             /\ cur' = [cur EXCEPT
                         !.sent = @ \/ pc = "send_message",
                         !.send = IF pc = "send_quit" THEN "true" ELSE @]
             /\ UNCHANGED exitCause
        ELSE Raise([cur EXCEPT !.stage = pc], e)
    /\ UNCHANGED <<configFile, config, now, next_run, lastOutcome, lastFetchFailed,
                   lastFire, prevFire, interruptedAt, marketVars, calVars>>

\* generate_and_send_report has returned to the job, some minutes after it was
\* started: the job computes its next_run and run_pending returns to the loop.
RunReturn ==
    /\ pc = "run_return"
    /\ \E d \in 0..MaxRunMinutes :
        /\ now + d <= MaxTime
        /\ now' = now + d
        /\ next_run' = ScheduleNextRun(now + d)
    /\ lastOutcome' = Outcome(cur)
    /\ lastFetchFailed' = cur.fetchFailed
    /\ cur' = NoRun
    /\ pc' = "sleep"
    /\ UNCHANGED <<configFile, config, exitCause, lastFire, prevFire,
                   interruptedAt, marketVars, calVars>>

\* Ctrl+C: KeyboardInterrupt is raised at the current position.
Interrupt ==
    /\ pc # "exited"
    /\ interruptedAt = "none"
    /\ interruptedAt' = pc
    /\ Raise(cur, KeyboardInterrupt)
    /\ UNCHANGED <<configFile, config, now, next_run, lastOutcome, lastFetchFailed,
                   lastFire, prevFire, marketVars, calVars>>

Next ==
    \/ MainCheckConfig
    \/ ConfigRemoved
    \/ InitGenerator
    \/ ScheduleJob
    \/ RunPending
    \/ Sleep
    \/ OpenTemplate
    \/ FetchAndRender
    \/ SendStep
    \/ RunReturn
    \/ Interrupt

Spec == Init /\ [][Next]_vars

(***************************************************************************)
(* SpecMarket: get_market_data and the market rows, for every configuration *)
(* of up to MaxSymbols pairs and every answer of the provider.             *)
(***************************************************************************)
MarketConfigs ==
    {[credentials |-> "real", source |-> "file",
      indices |-> SubSeq(DefaultIndices, 1, a),
      names |-> SubSeq(DefaultNames, 1, b)] : a \in 0..MaxSymbols, b \in 0..MaxSymbols}

InitMarket ==
    /\ SchedulerIdle
    /\ CalendarIdle
    /\ config \in MarketConfigs
    /\ responses \in [1..NumPairs(config) -> Responses]
    /\ mpc = "input"
    /\ market_data = <<>>
    /\ market_rows = <<>>

\* market_data = self.get_market_data()
GetMarketData ==
    /\ mpc = "input"
    /\ market_data' = get_market_data(config, responses)
    /\ mpc' = "fetched"
    /\ UNCHANGED <<schedVars, config, responses, market_rows, calVars>>

\* generate_html_report, lines 222-233
BuildMarketRows ==
    /\ mpc = "fetched"
    /\ market_rows' = MarketRows(market_data)
    /\ mpc' = "rendered"
    /\ UNCHANGED <<schedVars, config, responses, market_data, calVars>>

NextMarket ==
    \/ GetMarketData
    \/ BuildMarketRows

SpecMarket == InitMarket /\ [][NextMarket]_vars

(***************************************************************************)
(* SpecCalendar: get_weekly_events for every start date up to MaxStartDay. *)
(***************************************************************************)
InitCalendar ==
    /\ SchedulerIdle
    /\ MarketIdle
    /\ config = EditedConfig
    /\ cpc = "input"
    /\ today \in 0..MaxStartDay
    /\ weekly_events = <<>>

\* weekly_events = self.get_weekly_events()
GetWeeklyEvents ==
    /\ cpc = "input"
    /\ weekly_events' = get_weekly_events(today)
    /\ cpc' = "done"
    /\ UNCHANGED <<schedVars, config, marketVars, today>>

NextCalendar == GetWeeklyEvents

SpecCalendar == InitCalendar /\ [][NextCalendar]_vars

(***************************************************************************)
(* Claims about the scheduler (Spec)                                       *)
(***************************************************************************)

\* The number of 06:00 instants up to and including minute t.
TriggerOcc(t) == IF t < TriggerMinute THEN 0 ELSE ((t - TriggerMinute) \div DayLen) + 1

\* A run in progress goes on to its return to the loop, unless Ctrl+C ends the
\* process.
RunGoesOn ==
    pc \in RunPcs => (pc' \in (RunPcs \cup {"sleep"}) \/ exitCause' = "interrupt")

\* A poll that finds the job due starts it, unless Ctrl+C ends the process.
DueJobStarts ==
    (pc = "poll" /\ now >= next_run) =>
        (pc' = "open_template" \/ exitCause' = "interrupt")

\* C1: no failure inside a run ends the process.  An unhandled exception ends
\* it only before the job exists; a run, once started, goes on to its return to
\* the loop unless Ctrl+C ends the process; after the return the job is due at
\* the first 06:00 after the current time, and a due job is started by the next
\* poll.
C1_FailuresNeverStopScheduler ==
    /\ [](exitCause = "unhandled" => next_run = -1)
    /\ []((pc = "sleep" /\ lastOutcome # "none") =>
            (/\ next_run > now
             /\ next_run <= now + DayLen
             /\ next_run % DayLen = TriggerMinute))
    /\ [][RunGoesOn]_vars
    /\ [][DueJobStarts]_vars

\* A run has started after a run in which a symbol failed and delivery failed.
C1_Witness ==
    /\ pc = "open_template"
    /\ lastOutcome = "delivery_failed"
    /\ lastFetchFailed
    /\ prevFire >= 0

\* C2: in a run where generate_html_report raises, send_email_report is not
\* called and nothing is sent; delivery is under way only after a rendering that
\* returned.
C2_TemplateFailureNoDelivery ==
    /\ cur.render = "raised" =>
         (cur.send = "not_called" /\ ~cur.sent /\ pc \notin SendPcs)
    /\ pc \in SendPcs => cur.render = "ok"

\* A run has ended in the handler of generate_and_send_report on a template error.
C2_Witness ==
    /\ pc = "run_return"
    /\ cur.render = "raised"

\* C5: send_email_report returns True only after send_message completed, returns
\* False for an error raised at connect, starttls, login or send, and no
\* exception of the transport leaves it.
C5_SendReturnsBool ==
    /\ cur.send = "true" => cur.sent
    /\ cur.stage \in {"send_connect", "send_starttls", "send_login", "send_message"} =>
         cur.send = "false"
    /\ cur.send # "raised"

\* send_email_report has returned False after login raised.
C5_Witness ==
    /\ pc = "run_return"
    /\ cur.stage = "send_login"
    /\ cur.send = "false"
    /\ ~cur.sent

\* C6: two runs never belong to the same occurrence of 06:00: between the starts
\* of consecutive runs a 06:00 instant passes, so they are never in the same
\* minute and never on the same trigger.
C6_FiresOncePerTrigger ==
    prevFire >= 0 =>
        /\ TriggerOcc(prevFire) < TriggerOcc(lastFire)
        /\ prevFire < lastFire

\* Two runs on consecutive days.
C6_Witness ==
    /\ prevFire >= 0
    /\ lastFire = prevFire + DayLen

\* C7 as stated: Ctrl+C ends the process only between runs; a run it arrives in
\* goes on to its end.
C7_InterruptOnlyBetweenRuns ==
    exitCause = "interrupt" => interruptedAt \in IdlePcs

\* C7 as the code has it: Ctrl+C arriving anywhere in the loop ends the process
\* at once through the handler of main; a run in progress is cut at that step:
\* send_email_report has not returned, and a message not yet sent is not sent.
C7_InterruptAbortsRun ==
    interruptedAt \in LoopPcs =>
        /\ pc = "exited"
        /\ exitCause = "interrupt"
        /\ interruptedAt \in SendPcs => cur.send = "in_progress"
        /\ interruptedAt \in RenderPcs \cup {"send_connect", "send_starttls",
                                              "send_login", "send_message"} => ~cur.sent

\* Ctrl+C arrived during login and the process has ended with the run cut.
C7_Witness ==
    /\ interruptedAt = "send_login"
    /\ pc = "exited"
    /\ cur.send = "in_progress"

\* C8: without config.json at start-up the example is written and the process
\* ends with nothing scheduled or run; and no delivery is ever attempted with
\* the built-in default configuration of load_config.
C8_NoPlaceholderDelivery ==
    /\ exitCause = "config_missing" =>
         (configFile = "example" /\ next_run = -1 /\ lastFire = -1)
    /\ pc \in SendPcs => config.source # "default"

(***************************************************************************)
(* Claims about get_market_data and the market rows (SpecMarket)           *)
(***************************************************************************)
OthersOf(md, name) == SelectSeq(md, LAMBDA q : q.name # name)

NormalResponses == {r \in Responses : r.exc = "none"}

\* C3: for every pair whose provider call throws, the result holds the fallback
\* quote of that name, and the quotes of the other names are those, in that
\* order, of the result had the call returned any history instead.
C3_PerSymbolIsolation ==
    mpc # "input" =>
        \A i \in 1..NumPairs(config) :
            responses[i].exc # "none" =>
                /\ \E k \in 1..Len(market_data) :
                        market_data[k] = Fallback(config.names[i])
                /\ \A r \in NormalResponses :
                        OthersOf(market_data, config.names[i])
                        = OthersOf(get_market_data(config, [responses EXCEPT ![i] = r]),
                                   config.names[i])

\* The first of two symbols failed and the second has its quote.
C3_Witness ==
    /\ mpc = "fetched"
    /\ NumPairs(config) = 2
    /\ responses[1].exc # "none"
    /\ Len(market_data) = 2
    /\ market_data[1] = Fallback(config.names[1])
    /\ market_data[2].name = config.names[2]
    /\ market_data[2].change # NA

\* C4: a history of fewer than two sessions gives the fallback quote of that
\* name, so that the result has one quote per configured pair.
C4_ShortHistoryYieldsFallback ==
    mpc # "input" =>
        /\ \A i \in 1..NumPairs(config) :
                (responses[i].exc = "none" /\ Len(responses[i].hist) < 2) =>
                    \E k \in 1..Len(market_data) :
                        market_data[k] = Fallback(config.names[i])
        /\ Len(market_data) = NumPairs(config)

\* C10: the color class of every row agrees with its trend.
C10_ColorAgreesWithTrend ==
    mpc = "rendered" =>
        \A k \in 1..Len(market_rows) :
            /\ market_rows[k].color_class = "positive" <=> market_rows[k].trend = "up"
            /\ market_rows[k].color_class = "negative" <=> market_rows[k].trend = "down"
            /\ market_rows[k].color_class = "neutral" <=> market_rows[k].trend = "flat"

(***************************************************************************)
(* Claims about get_weekly_events (SpecCalendar)                           *)
(***************************************************************************)
TableDays == {"Tuesday", "Wednesday", "Thursday", "Friday"}

\* C9: at most 4 entries, each for one of the 7 days from the start date whose
\* weekday is Tuesday to Friday; no entry for a day of another weekday.
C9_WeeklyEvents ==
    cpc = "done" =>
        /\ Len(weekly_events) <= 4
        /\ \A k \in 1..Len(weekly_events) :
              \E i \in 0..6 :
                  /\ weekly_events[k].day.date = DayDate(today + i)
                  /\ DayName(today + i) \in TableDays
        /\ \A i \in 0..6 :
              DayName(today + i) \notin TableDays =>
                  \A k \in 1..Len(weekly_events) :
                      weekly_events[k].day.date # DayDate(today + i)

\* The week starts on a Saturday and has its four entries.
C9_Witness ==
    /\ cpc = "done"
    /\ DayName(today) = "Saturday"
    /\ Len(weekly_events) = 4

====
